---- MODULE Spec2Model ----
(***************************************************************************)
(* Model of the halloween-spider prop controller.                          *)
(*                                                                         *)
(*   src/main.py       the timer ensemble: LedTask, SpeakerTask, MotorTask *)
(*                     and Controller, four coroutines under one asyncio   *)
(*                     event loop, handing off through asyncio.Event.      *)
(*   src/main_save.py  the PIR polling loop with its edge detection.       *)
(*                                                                         *)
(* One action is one run of one coroutine from a suspension point (an      *)
(* await that blocks) to the next.  Time is discrete, in ticks of 25 ms    *)
(* (the shortest sleep of the program); code runs in zero time and the     *)
(* clock advances only when no coroutine is runnable.                      *)
(***************************************************************************)
EXTENDS Integers, Sequences, FiniteSets, TLC

VARIABLES
    \* ---- src/main.py ----
    pause_event,    \* TaskBase._pause_event of each task: the trigger signal
    clear_event,    \* TaskBase._clear_event of each task: the completion signal
    pc,             \* where each coroutine is suspended / resumes
    st,             \* scheduler status of each coroutine
    timer,          \* ticks left of the asyncio.sleep a coroutine is in
    ledI,           \* LedTask.run: i, the segment (20 = the segment toward red)
    ledJ,           \* LedTask.run: steps of the segment done so far
    old,            \* LedTask.run: (old_red, old_grn, old_blu)
    delta,          \* LedTask.run: (delta_red, delta_grn, delta_blu)
    ledColor,       \* last value written to self._led.color
    playing,        \* clip the I2S output is playing, "none" when silent
    duty_cycle,     \* MotorTask.run: the loop variable
    throttle,       \* last value written to self._motor.throttle, in 1/100
    interval_sleep, \* Controller.run: the cooldown picked, in seconds (0 once
                    \* the cooldown is over: nothing reads it any more)
    registry,       \* Controller._tasks: the names add_task has registered
    \* ---- history of src/main.py ----
    now,            \* ticks since the controller last passed the top of its loop
    fired,          \* trigger signals set in this firing cycle, in order
    setAt,          \* value of now when each trigger signal was set, -1 if not yet
    doneAt,         \* value of now when each completion signal was raised, -1 if not
    pending,        \* per task: set() calls on its trigger minus animations begun
    burst,          \* per task: set() calls on its trigger since its last clear()
    runs,           \* per task: animations begun since the last set() of its trigger
    motorLog,       \* throttle values written in the current motor animation
    joined,         \* completion signals that were true when the join returned
    joinAt,         \* value of now when the join returned, -1 before the first
    \* ---- one colour channel of LedTask.run, over all of randint(0, 255) ----
    ch_old,         \* old_red (old_grn, old_blu): the value written last
    ch_new,         \* new_red: the target of the segment
    ch_delta,       \* delta_red
    ch_step,        \* steps of the segment done so far
    ch_from,        \* history: the value the segment started from
    \* ---- one Signal under arbitrary callers ----
    sig,            \* the Event
    wst,            \* per caller: "idle", "suspended" in wait(), "released"
    lastOp,         \* the last operation on sig and what it did
    setSince,       \* history: set() was called and no clear() after it
    \* ---- src/main_save.py ----
    old_pir_value,
    pir_value,
    led_value,      \* led.value, the on-board LED
    printed,        \* what print() has written
    readings        \* history: the sensor readings taken, oldest first

mainVars == <<pause_event, clear_event, pc, st, timer, ledI, ledJ, old, delta,
              ledColor, playing, duty_cycle, throttle, interval_sleep, registry>>
histVars == <<now, fired, setAt, doneAt, pending, burst, runs, motorLog, joined,
              joinAt>>
chanVars == <<ch_old, ch_new, ch_delta, ch_step, ch_from>>
sigVars  == <<sig, wst, lastOp, setSince>>
pirVars  == <<old_pir_value, pir_value, led_value, printed, readings>>
vars     == <<mainVars, histVars, sigVars, pirVars, chanVars>>

ledVars   == <<ledI, ledJ, old, delta, ledColor>>
motorVars == <<duty_cycle, throttle, motorLog>>

(***************************************************************************)
(* Names and constants of the program                                      *)
(***************************************************************************)
Names == {"led", "speaker", "motor"}

\* The wait() coroutines asyncio.gather runs for the controller's join.
Joiner == [led |-> "join_led", speaker |-> "join_speaker", motor |-> "join_motor"]

Joiners == {Joiner[n] : n \in Names}

Tasks == Names \cup {"controller"} \cup Joiners

\* Mutant: the speaker is triggered before the eyes light up.
FanOut_SpeakerFirst == <<"speaker", "led", "motor">>

\* The order in which Controller.run sets the trigger signals.
FanOut == <<"led", "speaker", "motor">>

Sounds == {"sounds/spider_one.mp3", "sounds/spider_two.mp3",
           "sounds/spider_three.mp3", "sounds/spider_four.mp3"}

TicksPerSecond == 40

Seconds(s) == s * TicksPerSecond

LedStepTicks == 1

MotorStepTicks == 12

LedSegments == 20

LedSteps == 20

MotorLow == 16

MotorHigh == 50

MotorStride == 4

MotorHoldSeconds == 2

SettleSeconds == 5

MotorDelaySeconds == 3

randint(a, b) == a..b

\* The triples of randint(0, 255) the colour targets are sampled at.
RandColors == {<<0, 255, 0>>, <<255, 0, 255>>}

Black == <<0, 0, 0>>

Red == <<255, 0, 0>>

(***************************************************************************)
(* asyncio.Event: a flag and the coroutines suspended in wait().           *)
(***************************************************************************)
NewEvent == [state |-> FALSE, waiting |-> {}]

\* Mutant: wait() suspends even when the flag is set.
WaitReturnsNow_Never(e) == FALSE

\* Mutant: wait() never suspends.
WaitReturnsNow_Always(e) == TRUE

\* wait(): does it return without suspending the caller?
WaitReturnsNow(e) == e.state

\* wait() by t when it has to suspend: t joins the waiters.
EventWait(e, t) == IF WaitReturnsNow(e) THEN e
                   ELSE [e EXCEPT !.waiting = @ \cup {t}]

\* Mutant: set() wakes one waiter only (notify-one).
Released_One(e) == IF e.waiting = {} THEN {} ELSE {CHOOSE t \in e.waiting : TRUE}

\* set(): the coroutines it makes runnable.
Released(e) == e.waiting

EventSet(e) == [state |-> TRUE, waiting |-> e.waiting \ Released(e)]

\* Mutant: clear() leaves the flag as it is.
EventClear_Noop(e) == e

EventClear(e) == [e EXCEPT !.state = FALSE]

(***************************************************************************)
(* The cooperative scheduler                                               *)
(***************************************************************************)
\* t may run now: it is runnable and no coroutine is in the middle of a run.
CanRun(t) == \/ st[t] = "running"
             \/ st[t] = "ready" /\ \A u \in Tasks : st[u] # "running"

Wake(S, f) == [t \in Tasks |-> IF t \in S /\ f[t] = "waiting" THEN "ready" ELSE f[t]]

Min(S) == CHOOSE x \in S : \A y \in S : x <= y

Sleepers == {t \in Tasks : st[t] = "sleeping"}

\* d ticks pass: the sleeps that are over make their coroutine runnable.
TimerAfter(d) == [t \in Tasks |-> IF st[t] = "sleeping" /\ timer[t] > d
                                    THEN timer[t] - d ELSE 0]

StAfter(d) == [t \in Tasks |-> IF st[t] = "sleeping" /\ timer[t] <= d
                                 THEN "ready" ELSE st[t]]

\* The stopwatch runs only while there is a controller.
NowAfter(d) == IF st["controller"] = "off" THEN now ELSE now + d

\* Time passes up to the next deadline, when nothing is runnable.
Tick ==
    /\ \A t \in Tasks : st[t] \notin {"ready", "running"}
    /\ Sleepers # {}
    /\ LET d == Min({timer[t] : t \in Sleepers}) IN
         /\ timer' = TimerAfter(d)
         /\ st' = StAfter(d)
         /\ now' = NowAfter(d)
    /\ UNCHANGED <<pause_event, clear_event, pc, ledVars, playing, duty_cycle,
                   throttle, motorLog, interval_sleep, fired, setAt, doneAt,
                   pending, burst, runs, joined>>
    /\ UNCHANGED <<sigVars, pirVars, chanVars, registry, joinAt>>


(***************************************************************************)
(* Steps shared by the coroutines                                          *)
(***************************************************************************)
otherVars == <<sigVars, pirVars, chanVars, registry, joinAt>>

\* await asyncio.sleep(...): t resumes at label after the given ticks.
Sleep(t, label, ticks) ==
    /\ pc' = [pc EXCEPT ![t] = label]
    /\ st' = [st EXCEPT ![t] = "sleeping"]
    /\ timer' = [timer EXCEPT ![t] = ticks]

\* self._pause_event.clear() at the start of an animation of task n.
ConsumeTrigger(n) ==
    /\ pending' = [pending EXCEPT ![n] = @ - 1]
    /\ burst' = [burst EXCEPT ![n] = 0]
    /\ runs' = [runs EXCEPT ![n] = @ + 1]

\* "while True: await self._pause_event.wait()" reached by task n whose
\* trigger signal is p: it suspends, or goes on without yielding.
LoopTop(n, p, f) ==
    /\ pause_event' = [pause_event EXCEPT ![n] = EventWait(p, n)]
    /\ pc' = [pc EXCEPT ![n] = "wait"]
    /\ st' = [f EXCEPT ![n] = IF WaitReturnsNow(p) THEN "running" ELSE "waiting"]
    /\ timer' = [timer EXCEPT ![n] = 0]

\* Mutant: the completion signal is one object shared by the three tasks.
RaiseDone_Shared(n) ==
    /\ clear_event' = [m \in Names |-> EventSet(clear_event[m])]
    /\ doneAt' = [doneAt EXCEPT ![n] = now]

\* self._clear_event.set() by task n.
RaiseDone(n) ==
    /\ clear_event' = [clear_event EXCEPT ![n] = EventSet(@)]
    /\ doneAt' = [doneAt EXCEPT ![n] = now]

\* A task enters run(): the first pass through the top of its loop.
TaskStart(n) ==
    /\ CanRun(n)
    /\ pc[n] = "start"
    /\ LoopTop(n, pause_event[n], st)
    /\ UNCHANGED <<clear_event, ledVars, playing, motorVars, interval_sleep,
                   now, fired, setAt, doneAt, pending, burst, runs, joined>>
    /\ UNCHANGED otherVars

(***************************************************************************)
(* LedTask.run                                                             *)
(***************************************************************************)
\* Mutant: division that truncates toward zero, as in C.
Delta1_Trunc(new, cur) ==
    IF new >= cur THEN (new - cur) \div LedSteps ELSE -((cur - new) \div LedSteps)

\* Mutant: division that rounds up.
Delta1_Ceil(new, cur) == -((cur - new) \div LedSteps)

\* (new - old) // 20 of one channel: Python's floor division.
Delta1(new, cur) == (new - cur) \div LedSteps

Delta(new, cur) == [k \in 1..3 |-> Delta1(new[k], cur[k])]

Plus(c, d) == [k \in 1..3 |-> c[k] + d[k]]

\* A segment starts from colour cur toward target new: its first step.
LedSegment(i, new, cur) ==
    /\ ledI' = i
    /\ ledJ' = 1
    /\ delta' = Delta(new, cur)
    /\ old' = Plus(cur, Delta(new, cur))
    /\ ledColor' = Plus(cur, Delta(new, cur))
    /\ Sleep("led", "step", LedStepTicks)

LedBegin ==
    /\ CanRun("led")
    /\ pc["led"] = "wait"
    /\ pause_event' = [pause_event EXCEPT !["led"] = EventClear(@)]
    /\ ConsumeTrigger("led")
    /\ \E new \in RandColors : LedSegment(0, new, Black)
    /\ UNCHANGED <<clear_event, playing, motorVars, interval_sleep,
                   now, fired, setAt, doneAt, joined>>
    /\ UNCHANGED otherVars

LedStep ==
    /\ CanRun("led")
    /\ pc["led"] = "step"
    /\ ledJ < LedSteps
    /\ ledJ' = ledJ + 1
    /\ old' = Plus(old, delta)
    /\ ledColor' = Plus(old, delta)
    /\ Sleep("led", "step", LedStepTicks)
    /\ UNCHANGED <<ledI, delta>>
    /\ UNCHANGED <<pause_event, clear_event, playing, motorVars, interval_sleep,
                   now, fired, setAt, doneAt, pending, burst, runs, joined>>
    /\ UNCHANGED otherVars

LedSegEnd ==
    /\ CanRun("led")
    /\ pc["led"] = "step"
    /\ ledJ = LedSteps
    /\ Sleep("led", IF ledI < LedSegments THEN "seg" ELSE "redheld", Seconds(1))
    /\ UNCHANGED ledVars
    /\ UNCHANGED <<pause_event, clear_event, playing, motorVars, interval_sleep,
                   now, fired, setAt, doneAt, pending, burst, runs, joined>>
    /\ UNCHANGED otherVars

LedNextSeg ==
    /\ CanRun("led")
    /\ pc["led"] = "seg"
    /\ IF ledI + 1 < LedSegments
         THEN \E new \in RandColors : LedSegment(ledI + 1, new, old)
         ELSE LedSegment(LedSegments, Red, old)
    /\ UNCHANGED <<pause_event, clear_event, playing, motorVars, interval_sleep,
                   now, fired, setAt, doneAt, pending, burst, runs, joined>>
    /\ UNCHANGED otherVars

LedFlash ==
    /\ CanRun("led")
    /\ pc["led"] = "redheld"
    /\ ledColor' = Red
    /\ Sleep("led", "flash", Seconds(1))
    /\ UNCHANGED <<ledI, ledJ, old, delta>>
    /\ UNCHANGED <<pause_event, clear_event, playing, motorVars, interval_sleep,
                   now, fired, setAt, doneAt, pending, burst, runs, joined>>
    /\ UNCHANGED otherVars

\* Mutant: the completion signal is raised without the write of (0, 0, 0).
LedOff_StayRed ==
    /\ CanRun("led")
    /\ pc["led"] = "flash"
    /\ ledColor' = ledColor
    /\ RaiseDone("led")
    /\ LoopTop("led", pause_event["led"], Wake(Released(clear_event["led"]), st))
    /\ UNCHANGED <<ledI, ledJ, old, delta>>
    /\ UNCHANGED <<playing, motorVars, interval_sleep,
                   now, fired, setAt, pending, burst, runs, joined>>
    /\ UNCHANGED otherVars

LedOff ==
    /\ CanRun("led")
    /\ pc["led"] = "flash"
    /\ ledColor' = Black
    /\ RaiseDone("led")
    /\ LoopTop("led", pause_event["led"], Wake(Released(clear_event["led"]), st))
    /\ UNCHANGED <<ledI, ledJ, old, delta>>
    /\ UNCHANGED <<playing, motorVars, interval_sleep,
                   now, fired, setAt, pending, burst, runs, joined>>
    /\ UNCHANGED otherVars

(***************************************************************************)
(* SpeakerTask.run                                                         *)
(***************************************************************************)
\* Mutant: the task waits for the clip to end before it raises done.
SpeakerRun_Blocking ==
    \/ /\ CanRun("speaker")
       /\ pc["speaker"] = "wait"
       /\ ConsumeTrigger("speaker")
       /\ pause_event' = [pause_event EXCEPT !["speaker"] = EventClear(@)]
       /\ \E sound \in Sounds : playing' = sound
       /\ pc' = [pc EXCEPT !["speaker"] = "playing"]
       /\ st' = [st EXCEPT !["speaker"] = "waiting"]
       /\ UNCHANGED <<clear_event, timer, doneAt>>
       /\ UNCHANGED <<ledVars, motorVars, interval_sleep, now, fired, setAt, joined>>
       /\ UNCHANGED otherVars
    \/ /\ pc["speaker"] = "playing"
       /\ playing = "none"
       /\ \A u \in Tasks : st[u] # "running"
       /\ RaiseDone("speaker")
       /\ LoopTop("speaker", pause_event["speaker"],
                  Wake(Released(clear_event["speaker"]), st))
       /\ UNCHANGED <<pending, burst, runs, playing>>
       /\ UNCHANGED <<ledVars, motorVars, interval_sleep, now, fired, setAt, joined>>
       /\ UNCHANGED otherVars

SpeakerRun ==
    /\ CanRun("speaker")
    /\ pc["speaker"] = "wait"
    /\ ConsumeTrigger("speaker")
    /\ \E sound \in Sounds : playing' = sound
    /\ RaiseDone("speaker")
    /\ LoopTop("speaker", EventClear(pause_event["speaker"]),
               Wake(Released(clear_event["speaker"]), st))
    /\ UNCHANGED <<ledVars, motorVars, interval_sleep, now, fired, setAt, joined>>
    /\ UNCHANGED otherVars

\* The I2S output reaches the end of the clip, some time after play().
PlaybackEnds ==
    /\ playing # "none"
    /\ playing' = "none"
    /\ UNCHANGED <<pause_event, clear_event, pc, st, timer, ledVars, motorVars,
                   interval_sleep, now, fired, setAt, doneAt, pending, burst,
                   runs, joined>>
    /\ UNCHANGED otherVars

(***************************************************************************)
(* MotorTask.run                                                           *)
(***************************************************************************)
\* self._motor.throttle = duty_cycle / 100, kept in hundredths.
WriteThrottle(d) ==
    /\ throttle' = d
    /\ motorLog' = Append(motorLog, d)

MotorBegin ==
    /\ CanRun("motor")
    /\ pc["motor"] = "wait"
    /\ pause_event' = [pause_event EXCEPT !["motor"] = EventClear(@)]
    /\ ConsumeTrigger("motor")
    /\ duty_cycle' = MotorLow
    /\ throttle' = MotorLow
    /\ motorLog' = <<MotorLow>>
    /\ Sleep("motor", "up", MotorStepTicks)
    /\ UNCHANGED <<clear_event, ledVars, playing, interval_sleep,
                   now, fired, setAt, doneAt, joined>>
    /\ UNCHANGED otherVars

MotorUp ==
    /\ CanRun("motor")
    /\ pc["motor"] = "up"
    /\ duty_cycle + MotorStride < MotorHigh
    /\ duty_cycle' = duty_cycle + MotorStride
    /\ WriteThrottle(duty_cycle + MotorStride)
    /\ Sleep("motor", "up", MotorStepTicks)
    /\ UNCHANGED <<pause_event, clear_event, ledVars, playing, interval_sleep,
                   now, fired, setAt, doneAt, pending, burst, runs, joined>>
    /\ UNCHANGED otherVars

MotorHold ==
    /\ CanRun("motor")
    /\ pc["motor"] = "up"
    /\ duty_cycle + MotorStride >= MotorHigh
    /\ Sleep("motor", "hold", Seconds(MotorHoldSeconds))
    /\ UNCHANGED <<pause_event, clear_event, ledVars, playing, motorVars,
                   interval_sleep, now, fired, setAt, doneAt, pending, burst,
                   runs, joined>>
    /\ UNCHANGED otherVars

\* range(50, 16, -4) starts at 50.
MotorTurn ==
    /\ CanRun("motor")
    /\ pc["motor"] = "hold"
    /\ duty_cycle' = MotorHigh
    /\ WriteThrottle(MotorHigh)
    /\ Sleep("motor", "down", MotorStepTicks)
    /\ UNCHANGED <<pause_event, clear_event, ledVars, playing, interval_sleep,
                   now, fired, setAt, doneAt, pending, burst, runs, joined>>
    /\ UNCHANGED otherVars

MotorDown ==
    /\ CanRun("motor")
    /\ pc["motor"] = "down"
    /\ duty_cycle - MotorStride > MotorLow
    /\ duty_cycle' = duty_cycle - MotorStride
    /\ WriteThrottle(duty_cycle - MotorStride)
    /\ Sleep("motor", "down", MotorStepTicks)
    /\ UNCHANGED <<pause_event, clear_event, ledVars, playing, interval_sleep,
                   now, fired, setAt, doneAt, pending, burst, runs, joined>>
    /\ UNCHANGED otherVars

\* Mutant: the motor task goes back to its wait() without raising done.
MotorStop_NoDone ==
    /\ CanRun("motor")
    /\ pc["motor"] = "down"
    /\ duty_cycle - MotorStride <= MotorLow
    /\ WriteThrottle(0)
    /\ LoopTop("motor", pause_event["motor"], st)
    /\ UNCHANGED <<clear_event, doneAt>>
    /\ UNCHANGED <<duty_cycle, ledVars, playing, interval_sleep,
                   now, fired, setAt, pending, burst, runs, joined>>
    /\ UNCHANGED otherVars

MotorStop ==
    /\ CanRun("motor")
    /\ pc["motor"] = "down"
    /\ duty_cycle - MotorStride <= MotorLow
    /\ WriteThrottle(0)
    /\ RaiseDone("motor")
    /\ LoopTop("motor", pause_event["motor"],
               Wake(Released(clear_event["motor"]), st))
    /\ UNCHANGED <<duty_cycle, ledVars, playing, interval_sleep,
                   now, fired, setAt, pending, burst, runs, joined>>
    /\ UNCHANGED otherVars


(***************************************************************************)
(* Controller.run                                                          *)
(***************************************************************************)
\* task.pause_event.set() for task n, with its history.
SetTrigger(n, f, t) ==
    /\ pause_event' = [pause_event EXCEPT ![n] = EventSet(@)]
    /\ st' = Wake(Released(pause_event[n]), f)
    /\ setAt' = [t EXCEPT ![n] = now']
    /\ pending' = [pending EXCEPT ![n] = @ + 1]
    /\ burst' = [burst EXCEPT ![n] = @ + 1]
    /\ runs' = [runs EXCEPT ![n] = 0]

NotYet == [n \in Names |-> -1]

\* Mutant: the controller enters its loop without the settle delay.
CtrlStart_NoSettle ==
    /\ CanRun("controller")
    /\ pc["controller"] = "start"
    /\ pc' = [pc EXCEPT !["controller"] = "settle"]
    /\ st' = [st EXCEPT !["controller"] = "running"]
    /\ UNCHANGED <<pause_event, clear_event, ledVars, playing, motorVars,
                   interval_sleep, now, fired, setAt, doneAt, pending, burst,
                   runs, joined, timer>>
    /\ UNCHANGED otherVars

\* await asyncio.sleep(5) before the loop.
CtrlStart ==
    /\ CanRun("controller")
    /\ pc["controller"] = "start"
    /\ Sleep("controller", "settle", Seconds(SettleSeconds))
    /\ UNCHANGED <<pause_event, clear_event, ledVars, playing, motorVars,
                   interval_sleep, now, fired, setAt, doneAt, pending, burst,
                   runs, joined>>
    /\ UNCHANGED otherVars

\* Top of the loop: the first trigger signal, then the randomized delay.
CtrlFireLed ==
    /\ CanRun("controller")
    /\ pc["controller"] \in {"settle", "cooldown"}
    /\ FanOut[1] \in registry
    /\ now' = 0
    /\ fired' = <<FanOut[1]>>
    /\ doneAt' = NotYet
    /\ \E d \in randint(1, 2) :
         /\ SetTrigger(FanOut[1], [st EXCEPT !["controller"] = "sleeping"], NotYet)
         /\ pc' = [pc EXCEPT !["controller"] = "fire1"]
         /\ timer' = [timer EXCEPT !["controller"] = Seconds(d)]
    /\ interval_sleep' = 0
    /\ UNCHANGED <<clear_event, ledVars, playing, motorVars, joined>>
    /\ UNCHANGED otherVars

\* Mutant: the delay before the motor is the randomized one again.
CtrlFireSpeaker_ShortDelay ==
    /\ CanRun("controller")
    /\ pc["controller"] = "fire1"
    /\ now' = now
    /\ fired' = Append(fired, FanOut[2])
    /\ SetTrigger(FanOut[2], [st EXCEPT !["controller"] = "sleeping"], setAt)
    /\ pc' = [pc EXCEPT !["controller"] = "fire2"]
    /\ \E d \in randint(1, 2) : timer' = [timer EXCEPT !["controller"] = Seconds(d)]
    /\ UNCHANGED <<clear_event, ledVars, playing, motorVars, interval_sleep,
                   doneAt, joined>>
    /\ UNCHANGED otherVars

CtrlFireSpeaker ==
    /\ CanRun("controller")
    /\ pc["controller"] = "fire1"
    /\ FanOut[2] \in registry
    /\ now' = now
    /\ fired' = Append(fired, FanOut[2])
    /\ SetTrigger(FanOut[2], [st EXCEPT !["controller"] = "sleeping"], setAt)
    /\ pc' = [pc EXCEPT !["controller"] = "fire2"]
    /\ timer' = [timer EXCEPT !["controller"] = Seconds(MotorDelaySeconds)]
    /\ UNCHANGED <<clear_event, ledVars, playing, motorVars, interval_sleep,
                   doneAt, joined>>
    /\ UNCHANGED otherVars

\* Mutant: the gather is over as soon as one wait() has returned.
GatherDone_Any(p) == \E n \in Names : p[Joiner[n]] = "done"

\* The gather is over once every one of its wait() coroutines has returned.
GatherDone(p) == \A n \in Names : p[Joiner[n]] = "done"

\* Mutant: the controller goes round its loop without the gather.
CtrlFireMotor_NoJoin ==
    /\ CanRun("controller")
    /\ pc["controller"] = "fire2"
    /\ FanOut[3] \in registry
    /\ now' = now
    /\ fired' = Append(fired, FanOut[3])
    /\ SetTrigger(FanOut[3], [st EXCEPT !["controller"] = "ready"], setAt)
    /\ pc' = [pc EXCEPT !["controller"] = "cooldown"]
    /\ timer' = [timer EXCEPT !["controller"] = 0]
    /\ UNCHANGED <<clear_event, ledVars, playing, motorVars, interval_sleep,
                   doneAt, joined>>
    /\ UNCHANGED otherVars

\* The last trigger signal, then asyncio.gather starts the three wait()s.
CtrlFireMotor ==
    /\ CanRun("controller")
    /\ pc["controller"] = "fire2"
    /\ FanOut[3] \in registry
    /\ now' = now
    /\ fired' = Append(fired, FanOut[3])
    /\ SetTrigger(FanOut[3],
                  [t \in Tasks |-> IF t = "controller" THEN "waiting"
                                   ELSE IF t \in Joiners THEN "ready" ELSE st[t]],
                  setAt)
    /\ pc' = [t \in Tasks |-> IF t = "controller" THEN "join"
                              ELSE IF t \in Joiners THEN "start" ELSE pc[t]]
    /\ timer' = [timer EXCEPT !["controller"] = 0]
    /\ UNCHANGED <<clear_event, ledVars, playing, motorVars, interval_sleep,
                   doneAt, joined>>
    /\ UNCHANGED otherVars

\* One wait() of the gather has returned: the last one resumes the controller.
JoinReturn(n) ==
    LET p == [pc EXCEPT ![Joiner[n]] = "done"] IN
    /\ pc' = p
    /\ st' = [st EXCEPT ![Joiner[n]] = "off",
                        !["controller"] = IF GatherDone(p) THEN "ready" ELSE @]

\* task.clear_event.wait(), run by the gather.
JoinWait(n) ==
    /\ CanRun(Joiner[n])
    /\ pc[Joiner[n]] = "start"
    /\ IF WaitReturnsNow(clear_event[n])
         THEN JoinReturn(n) /\ UNCHANGED clear_event
         ELSE /\ clear_event' = [clear_event EXCEPT ![n] = EventWait(@, Joiner[n])]
              /\ pc' = [pc EXCEPT ![Joiner[n]] = "wait"]
              /\ st' = [st EXCEPT ![Joiner[n]] = "waiting"]
    /\ UNCHANGED <<pause_event, timer, ledVars, playing, motorVars, interval_sleep,
                   now, fired, setAt, doneAt, pending, burst, runs, joined>>
    /\ UNCHANGED otherVars

\* A suspended wait() of the gather resumes after the set() that released it.
JoinResume(n) ==
    /\ CanRun(Joiner[n])
    /\ pc[Joiner[n]] = "wait"
    /\ JoinReturn(n)
    /\ UNCHANGED <<pause_event, clear_event, timer, ledVars, playing, motorVars,
                   interval_sleep, now, fired, setAt, doneAt, pending, burst,
                   runs, joined>>
    /\ UNCHANGED otherVars

\* Mutant: the scheduler sleep draws an interval of its own.
CtrlJoinDone_OtherInterval ==
    /\ CanRun("controller")
    /\ pc["controller"] = "join"
    /\ joined' = {n \in Names : clear_event[n].state}
    /\ clear_event' = [n \in Names |-> EventClear(clear_event[n])]
    /\ \E iv \in randint(60, 120), iw \in {60, 120} :
         /\ interval_sleep' = iv
         /\ now' = now + Seconds(iv)
         /\ st' = [StAfter(Seconds(iv)) EXCEPT !["controller"] = "sleeping"]
         /\ timer' = [TimerAfter(Seconds(iv)) EXCEPT !["controller"] = Seconds(iw)]
    /\ pc' = [pc EXCEPT !["controller"] = "cooldown"]
    /\ joinAt' = now
    /\ UNCHANGED <<pause_event, ledVars, playing, motorVars,
                   fired, setAt, doneAt, pending, burst, runs>>
    /\ UNCHANGED <<sigVars, pirVars, chanVars, registry>>

\* After the gather: clear the completion signals, light sleep, sleep.
\* alarm.light_sleep_until_alarms blocks the whole program until its deadline.
CtrlJoinDone ==
    /\ CanRun("controller")
    /\ pc["controller"] = "join"
    /\ joined' = {n \in Names : clear_event[n].state}
    /\ clear_event' = [n \in Names |-> EventClear(clear_event[n])]
    /\ \E iv \in randint(60, 120) :
         /\ interval_sleep' = iv
         /\ now' = now + Seconds(iv)
         /\ st' = [StAfter(Seconds(iv)) EXCEPT !["controller"] = "sleeping"]
         /\ timer' = [TimerAfter(Seconds(iv)) EXCEPT !["controller"] = Seconds(iv)]
    /\ pc' = [pc EXCEPT !["controller"] = "cooldown"]
    /\ joinAt' = now
    /\ UNCHANGED <<pause_event, ledVars, playing, motorVars,
                   fired, setAt, doneAt, pending, burst, runs>>
    /\ UNCHANGED <<sigVars, pirVars, chanVars, registry>>

(***************************************************************************)
(* main(): the timer ensemble                                              *)
(***************************************************************************)
NoOp == [op |-> "none", who |-> 0, flag |-> FALSE, suspended |-> FALSE,
         before |-> {}]

SigAtRest ==
    /\ sig = NewEvent
    /\ wst = <<>>
    /\ lastOp = NoOp
    /\ setSince = FALSE

PirAtRest ==
    /\ old_pir_value = FALSE
    /\ pir_value = FALSE
    /\ led_value = FALSE
    /\ printed = <<>>
    /\ readings = <<>>

ChannelAtRest ==
    /\ ch_old = 0
    /\ ch_new = 0
    /\ ch_delta = 0
    /\ ch_step = 0
    /\ ch_from = 0

\* main() registers the three tasks with the controller.
Registered == registry = Names

\* The tasks as constructed; ctl is the controller's status.
InitTasks(ctl) ==
    /\ pause_event = [n \in Names |-> NewEvent]
    /\ clear_event = [n \in Names |-> NewEvent]
    /\ pc = [t \in Tasks |-> "start"]
    /\ st = [t \in Tasks |-> IF t \in Names THEN "ready"
                             ELSE IF t = "controller" THEN ctl ELSE "off"]
    /\ timer = [t \in Tasks |-> 0]
    /\ ledI = 0
    /\ ledJ = 0
    /\ old = Black
    /\ delta = Black
    /\ ledColor = Black
    /\ playing = "none"
    /\ duty_cycle = 0
    /\ throttle = 0
    /\ interval_sleep = 0
    /\ now = 0
    /\ fired = <<>>
    /\ setAt = NotYet
    /\ doneAt = NotYet
    /\ pending = [n \in Names |-> 0]
    /\ burst = [n \in Names |-> 0]
    /\ runs = [n \in Names |-> 0]
    /\ motorLog = <<>>
    /\ joined = {}
    /\ joinAt = -1

Init == InitTasks("ready") /\ Registered /\ SigAtRest /\ PirAtRest /\ ChannelAtRest

Next ==
    \/ \E n \in Names : TaskStart(n)
    \/ LedBegin \/ LedStep \/ LedSegEnd \/ LedNextSeg \/ LedFlash \/ LedOff
    \/ SpeakerRun \/ PlaybackEnds
    \/ MotorBegin \/ MotorUp \/ MotorHold \/ MotorTurn \/ MotorDown \/ MotorStop
    \/ CtrlStart \/ CtrlFireLed \/ CtrlFireSpeaker \/ CtrlFireMotor
    \/ \E n \in Names : JoinWait(n)
    \/ \E n \in Names : JoinResume(n)
    \/ CtrlJoinDone
    \/ Tick

Spec == Init /\ [][Next]_vars


(***************************************************************************)
(* One Signal (asyncio.Event) under every sequence of set/wait/clear by    *)
(* NumWaiters waiting coroutines and a producer.                           *)
(***************************************************************************)
NumWaiters == 3

Waiters == 1..NumWaiters

Suspended == {w \in Waiters : wst[w] = "suspended"}

\* await event.wait() by w.
SigWait(w) ==
    /\ wst[w] = "idle"
    /\ sig' = EventWait(sig, w)
    /\ wst' = [wst EXCEPT ![w] = IF WaitReturnsNow(sig) THEN "idle" ELSE "suspended"]
    /\ lastOp' = [op |-> "wait", who |-> w, flag |-> setSince,
                  suspended |-> ~WaitReturnsNow(sig), before |-> Suspended]
    /\ UNCHANGED setSince
    /\ UNCHANGED <<mainVars, histVars, pirVars, chanVars>>

\* event.set().
SigSet ==
    /\ sig' = EventSet(sig)
    /\ wst' = [w \in Waiters |-> IF w \in Released(sig) THEN "released" ELSE wst[w]]
    /\ lastOp' = [op |-> "set", who |-> 0, flag |-> setSince, suspended |-> FALSE,
                  before |-> Suspended]
    /\ setSince' = TRUE
    /\ UNCHANGED <<mainVars, histVars, pirVars, chanVars>>

\* event.clear().
SigClear ==
    /\ sig' = EventClear(sig)
    /\ lastOp' = [op |-> "clear", who |-> 0, flag |-> setSince, suspended |-> FALSE,
                  before |-> Suspended]
    /\ setSince' = FALSE
    /\ UNCHANGED wst
    /\ UNCHANGED <<mainVars, histVars, pirVars, chanVars>>

\* A coroutine released by set() runs again: its wait() returns.
SigResume(w) ==
    /\ wst[w] = "released"
    /\ wst' = [wst EXCEPT ![w] = "idle"]
    /\ lastOp' = [op |-> "resume", who |-> w, flag |-> setSince, suspended |-> FALSE,
                  before |-> Suspended]
    /\ UNCHANGED <<sig, setSince>>
    /\ UNCHANGED <<mainVars, histVars, pirVars, chanVars>>

InitSignal ==
    /\ InitTasks("off")
    /\ Registered
    /\ PirAtRest
    /\ ChannelAtRest
    /\ sig = NewEvent
    /\ wst = [w \in Waiters |-> "idle"]
    /\ lastOp = NoOp
    /\ setSince = FALSE

NextSignal ==
    \/ \E w \in Waiters : SigWait(w)
    \/ SigSet
    \/ SigClear
    \/ \E w \in Waiters : SigResume(w)

SpecSignal == InitSignal /\ [][NextSignal]_vars

(***************************************************************************)
(* The actuator tasks under a trigger that may fire again at any moment    *)
(* (the motion trigger of the specification, which does not wait for the   *)
(* completion signals).                                                    *)
(***************************************************************************)
MaxPending == 3

RefireNames == {"speaker", "motor"}

\* The trigger sets the trigger signal of n once more.
Refire(n) ==
    /\ pending[n] < MaxPending
    /\ now' = now
    /\ SetTrigger(n, st, setAt)
    /\ UNCHANGED <<clear_event, pc, timer, ledVars, playing, motorVars,
                   interval_sleep, fired, doneAt, joined>>
    /\ UNCHANGED otherVars

InitRefire == InitTasks("off") /\ Registered /\ SigAtRest /\ PirAtRest /\ ChannelAtRest

NextRefire ==
    \/ \E n \in Names : TaskStart(n)
    \/ \E n \in RefireNames : Refire(n)
    \/ SpeakerRun \/ PlaybackEnds
    \/ MotorBegin \/ MotorUp \/ MotorHold \/ MotorTurn \/ MotorDown \/ MotorStop
    \/ Tick

SpecRefire == InitRefire /\ [][NextRefire]_vars

(***************************************************************************)
(* src/main_save.py: the PIR polling loop                                  *)
(***************************************************************************)
MaxPolls == 5

PirText(v) == IF v THEN "pir value: True" ELSE "pir value: False"

\* Lines 29-30: the previous reading comes from the sensor; a second read
\* is printed.
InitPir ==
    /\ old_pir_value \in BOOLEAN
    /\ pir_value = old_pir_value
    /\ led_value = FALSE
    /\ \E v \in BOOLEAN : printed = <<PirText(v)>>
    /\ readings = <<old_pir_value>>

\* Mutant: the previous reading is not consulted (level instead of edge).
Poll_Level ==
    /\ Len(readings) <= MaxPolls
    /\ \E v \in BOOLEAN :
         /\ pir_value' = v
         /\ led_value' = v
         /\ printed' = IF v THEN Append(printed, "motion detected")
                       ELSE IF old_pir_value THEN Append(printed, "motion ended")
                       ELSE printed
         /\ old_pir_value' = v
         /\ readings' = Append(readings, v)
    /\ UNCHANGED <<mainVars, histVars, sigVars, chanVars>>

\* One pass of the while loop with sensor reading v.
Poll ==
    /\ Len(readings) <= MaxPolls
    /\ \E v \in BOOLEAN :
         /\ pir_value' = v
         /\ led_value' = v
         /\ printed' = IF v /\ ~old_pir_value THEN Append(printed, "motion detected")
                       ELSE IF ~v /\ old_pir_value THEN Append(printed, "motion ended")
                       ELSE printed
         /\ old_pir_value' = v
         /\ readings' = Append(readings, v)
    /\ UNCHANGED <<mainVars, histVars, sigVars, chanVars>>

InitMotion == InitTasks("off") /\ Registered /\ SigAtRest /\ InitPir /\ ChannelAtRest

NextMotion == Poll

SpecMotion == InitMotion /\ [][NextMotion]_vars


(***************************************************************************)
(* Properties                                                              *)
(***************************************************************************)
Order == <<"led", "speaker", "motor">>

\* C1: in every firing cycle of Controller.run the led trigger signal is set
\* strictly before the speaker's, which is set strictly before the motor's;
\* no cycle sets them in another order or skips one: the signals set so far
\* in a cycle are always a prefix of led, speaker, motor, the prefix is as
\* long as the controller's position says, and the set times strictly grow.
C1_FanOutOrder ==
    /\ \E k \in 0..3 : fired = SubSeq(Order, 1, k)
    /\ pc["controller"] = "fire1" => fired = SubSeq(Order, 1, 1)
    /\ pc["controller"] = "fire2" => fired = SubSeq(Order, 1, 2)
    /\ pc["controller"] \in {"join", "cooldown"} => fired = Order
    /\ \A n \in Names : (setAt[n] >= 0) <=> (\E i \in 1..Len(fired) : fired[i] = n)
    /\ setAt["speaker"] >= 0 => setAt["led"] < setAt["speaker"]
    /\ setAt["motor"] >= 0 => setAt["speaker"] < setAt["motor"]

C1_Witness ==
    /\ pc["controller"] = "join"
    /\ fired = Order
    /\ 0 <= setAt["led"]
    /\ setAt["led"] < setAt["speaker"]
    /\ setAt["speaker"] < setAt["motor"]

\* C2: the controller does not leave its wait-for-all-done step (the gather)
\* while fewer than all three completion signals have been raised; when it
\* has left it, all three had been raised and all three are cleared, so in
\* the cooldown every completion signal is false and a wait() on it blocks.
C2_Join ==
    /\ (pc["controller"] = "join" /\ \E n \in Names : ~clear_event[n].state)
          => st["controller"] = "waiting"
    /\ pc["controller"] = "cooldown" =>
          /\ joined = Names
          /\ \A n \in Names : ~clear_event[n].state
          /\ \A n \in Names : ~WaitReturnsNow(clear_event[n])

C2_Witness ==
    /\ pc["controller"] = "cooldown"
    /\ joined = Names
    /\ \A n \in Names : doneAt[n] >= 0 /\ ~clear_event[n].state

\* C3: for every sequence of set/wait/clear on one Signal, a wait() issued
\* while a set() has happened with no clear() after it returns at once: the
\* caller is not suspended.
C3_WaitAfterSet ==
    (lastOp.op = "wait" /\ lastOp.flag) =>
        /\ ~lastOp.suspended
        /\ wst[lastOp.who] = "idle"
        /\ lastOp.who \notin sig.waiting

C3_Witness ==
    /\ lastOp.op = "wait"
    /\ lastOp.flag
    /\ wst[lastOp.who] = "idle"

\* C4: no spurious wake-up.  A coroutine about to return from wait() on a
\* trigger or completion signal has had that signal set since its last
\* clear(); an actuator begins an animation only then, and the animations it
\* has begun never exceed the set() calls on its trigger signal.
C4_NoSpuriousWake ==
    /\ \A n \in Names : pending[n] >= 0
    /\ \A n \in Names :
          (pc[n] = "wait" /\ st[n] \in {"ready", "running"})
             => burst[n] >= 1 /\ pause_event[n].state
    /\ \A n \in Names : pc[n] \notin {"start", "wait"} => runs[n] = 1
    /\ \A n \in Names :
          (pc[Joiner[n]] = "wait" /\ st[Joiner[n]] = "ready")
             => doneAt[n] >= 0 /\ clear_event[n].state

C4_Witness ==
    /\ pc["motor"] = "down"
    /\ pc["led"] = "step"
    /\ \A n \in Names : pending[n] = 0 /\ runs[n] = 1

\* C5: broadcast.  For every number of coroutines suspended in wait() on the
\* same Signal, one set() releases all of them: right after a set() none is
\* suspended, and every one that was suspended is runnable or has run.
C5_Broadcast ==
    /\ lastOp.op = "set" =>
          /\ Suspended = {}
          /\ sig.waiting = {}
          /\ \A w \in lastOp.before : wst[w] = "released"
    /\ sig.state => Suspended = {}

C5_Witness ==
    /\ lastOp.op = "set"
    /\ lastOp.before = Waiters
    /\ \A w \in Waiters : wst[w] = "released"

\* C6: set() is idempotent and triggers are not queued.  A set() on a
\* trigger signal that is already set leaves the signal and the scheduler as
\* they are; after the last of several set() calls the actuator begins one
\* animation, not one per call, and a set trigger signal never leaves its
\* actuator suspended.
C6_SetIdempotent ==
    /\ [][\A n \in Names :
            (burst'[n] > burst[n] /\ burst[n] >= 1)
               => /\ pause_event' = pause_event
                  /\ st' = st
                  /\ pc' = pc]_vars
    /\ [](\A n \in Names : runs[n] <= 1)
    /\ [](\A n \in Names :
            burst[n] >= 1 => /\ pause_event[n].state
                             /\ ~(pc[n] = "wait" /\ st[n] = "waiting"))
    /\ [](\A n \in Names :
            (pc[n] = "wait" /\ st[n] = "waiting") => ~pause_event[n].state)

\* Two set() calls were absorbed into one motor animation, which is over.
C6_Witness ==
    /\ pc["motor"] = "wait"
    /\ st["motor"] = "waiting"
    /\ Len(motorLog) > 1
    /\ pending["motor"] = 1
    /\ runs["motor"] = 1

ClaimedUp == [i \in 1..9 |-> 16 + 4 * (i - 1)]

Reverse(q) == [i \in 1..Len(q) |-> q[Len(q) + 1 - i]]

AnimationOver == /\ pc["motor"] = "wait"
                 /\ Len(motorLog) > 0

\* C7: one MotorTask animation writes the duty cycles 16, 20, ..., 48
\* ascending, then the same values in reverse order, and last throttle 0.
C7_MirroredRamp ==
    AnimationOver => motorLog = ClaimedUp \o Reverse(ClaimedUp) \o <<0>>

Detections == Cardinality({i \in 1..Len(printed) : printed[i] = "motion detected"})

RisingEdges == Cardinality({i \in 1..(Len(readings) - 1) :
                               ~readings[i] /\ readings[i + 1]})

\* C8: over any sequence of sensor readings the polling loop reports motion
\* once on exactly the polls whose previous reading was false and whose
\* reading is true: the reports so far always number the rising edges so
\* far, with the reading taken before the loop as the first previous one.
C8_EdgeDetection ==
    /\ Detections = RisingEdges
    /\ old_pir_value = readings[Len(readings)]
    /\ Len(readings) > 1 => led_value = readings[Len(readings)]

\* A sustained true period after one edge: one report.
C8_Witness ==
    /\ readings = <<FALSE, TRUE, TRUE, TRUE>>
    /\ Detections = 1

\* C9: if the led trigger signal is set at time t, the speaker's is set at
\* t + d with d in {1, 2} seconds and the motor's exactly 3 seconds after the
\* speaker's; with d = 1 the sets are at 0 (led), 1 (speaker), 4 (motor).
C9_FanOutTiming ==
    /\ setAt["led"] \in {-1, 0}
    /\ setAt["speaker"] >= 0 =>
          setAt["speaker"] - setAt["led"] \in {Seconds(1), Seconds(2)}
    /\ setAt["motor"] >= 0 => setAt["motor"] - setAt["speaker"] = Seconds(3)
    /\ (setAt["speaker"] = Seconds(1) /\ setAt["motor"] >= 0)
          => setAt["motor"] = Seconds(4)

C9_Witness ==
    /\ setAt["led"] = 0
    /\ setAt["speaker"] = Seconds(1)
    /\ setAt["motor"] = Seconds(4)

\* C10: fire-and-forget audio.  The step in which the speaker's completion
\* signal is raised is the step in which the task woke on its trigger: the
\* same step clears the trigger and starts a clip, which is still playing
\* when done is raised; and in every cycle the completion signal has been
\* raised before the motor's trigger signal is set.
C10_FireAndForget ==
    /\ [][(clear_event'["speaker"].state /\ ~clear_event["speaker"].state)
            => /\ pc["speaker"] = "wait"
               /\ st["speaker"] = "ready"
               /\ pause_event["speaker"].state
               /\ ~pause_event'["speaker"].state
               /\ playing' \in Sounds
               /\ doneAt'["speaker"] = setAt["speaker"]]_vars
    /\ [](setAt["motor"] >= 0 =>
            /\ doneAt["speaker"] >= 0
            /\ doneAt["speaker"] < setAt["motor"])

\* The motor is triggered, done was raised earlier and the clip still plays.
C10_Witness ==
    /\ setAt["motor"] >= 0
    /\ doneAt["speaker"] >= 0
    /\ doneAt["speaker"] < setAt["motor"]
    /\ clear_event["speaker"].state
    /\ playing \in Sounds


(***************************************************************************)
(* The timer ensemble when a peripheral call fails: the clip cannot be     *)
(* opened.  No run() catches anything, so the exception leaves the task.   *)
(* What the event loop does with it is the library's choice: it ends       *)
(* main()'s gather and with it the program, or it ends the task alone.     *)
(***************************************************************************)
Raise(t) ==
    /\ pc' = [pc EXCEPT ![t] = "raised"]
    /\ \/ /\ st' = [st EXCEPT ![t] = "off"]
          /\ timer' = [timer EXCEPT ![t] = 0]
       \/ /\ st' = [u \in Tasks |-> "off"]
          /\ timer' = [u \in Tasks |-> 0]

\* SpeakerTask.run up to open(sound, "rb"), which raises OSError.
SpeakerFail ==
    /\ CanRun("speaker")
    /\ pc["speaker"] = "wait"
    /\ ConsumeTrigger("speaker")
    /\ pause_event' = [pause_event EXCEPT !["speaker"] = EventClear(@)]
    /\ Raise("speaker")
    /\ UNCHANGED <<clear_event, ledVars, playing, motorVars, interval_sleep,
                   now, fired, setAt, doneAt, joined>>
    /\ UNCHANGED otherVars

NextFail == Next \/ SpeakerFail

SpecFail == Init /\ [][NextFail]_vars

\* C11: when a peripheral call fails in an actuator task, the task's loop
\* goes on to its next wait() and the other tasks and the trigger keep
\* running: no coroutine of the ensemble ever leaves its loop.
C11_FailureContained ==
    \A t \in Names \cup {"controller"} : pc[t] # "raised" /\ st[t] # "off"

\* The trigger blocked for good: the speaker is gone, the other two are done
\* and idle, and the controller waits in its join with nothing left to run.
C11_JoinBlocked ==
    /\ pc["speaker"] = "raised"
    /\ pc["controller"] = "join"
    /\ st["controller"] = "waiting"
    /\ clear_event["led"].state
    /\ clear_event["motor"].state
    /\ \A t \in Tasks : st[t] \in {"waiting", "off"}


(***************************************************************************)
(* The controller with any set of registered names: Controller.add_task    *)
(* may have been called for fewer tasks than Controller.run looks up.      *)
(***************************************************************************)
\* The name Controller.run looks up next with self._tasks.get(...).
NextName == IF pc["controller"] \in {"settle", "cooldown"} THEN FanOut[1]
            ELSE IF pc["controller"] = "fire1" THEN FanOut[2]
            ELSE FanOut[3]

\* self._tasks.get(name) returns None, and None.pause_event raises
\* AttributeError at the place in the loop where the task is used.
CtrlMissing ==
    /\ CanRun("controller")
    /\ pc["controller"] \in {"settle", "cooldown", "fire1", "fire2"}
    /\ NextName \notin registry
    /\ Raise("controller")
    /\ UNCHANGED <<pause_event, clear_event, ledVars, playing, motorVars,
                   interval_sleep, now, fired, setAt, doneAt, pending, burst,
                   runs, joined>>
    /\ UNCHANGED otherVars

InitRegistry ==
    /\ InitTasks("ready")
    /\ registry \in SUBSET Names
    /\ SigAtRest
    /\ PirAtRest
    /\ ChannelAtRest

NextRegistry == Next \/ CtrlMissing

SpecRegistry == InitRegistry /\ [][NextRegistry]_vars

\* C12: a trigger whose mapping lacks a name it fans out to fails at startup:
\* when it has failed, the settle delay has not run and no trigger signal
\* has been set, in no cycle.
C12_FailsAtStartup ==
    pc["controller"] = "raised" =>
        /\ now = 0
        /\ fired = <<>>
        /\ \A n \in Names : setAt[n] = -1 /\ pending[n] = 0

\* The failure in the middle of a cycle: led and speaker were triggered, the
\* lookup of the motor task failed three seconds later.
C12_MidCycle ==
    /\ pc["controller"] = "raised"
    /\ registry = {"led", "speaker"}
    /\ fired = <<"led", "speaker">>
    /\ now = setAt["speaker"] + Seconds(MotorDelaySeconds)


(***************************************************************************)
(* The cooldown                                                            *)
(***************************************************************************)
NoTrigger == \A n \in Names : ~pause_event[n].state

\* In the cooldown: the interval is one of 60..120, the blocking sleep has
\* used it up once and the scheduler sleep counts the same interval down.
CooldownClock ==
    pc["controller"] = "cooldown" =>
        /\ interval_sleep \in 60..120
        /\ NoTrigger
        /\ now - joinAt + timer["controller"] = 2 * Seconds(interval_sleep)
        /\ st["controller"] = "sleeping" => timer["controller"] = Seconds(interval_sleep)

\* The step that ends the cooldown is the led-set of the next cycle.
CooldownEnds ==
    pc["controller"] = "cooldown" /\ pc'["controller"] # "cooldown" =>
        /\ pc'["controller"] = "fire1"
        /\ pause_event'["led"].state
        /\ now - joinAt >= Seconds(interval_sleep)

\* C13: after each join the controller picks one interval in 60..120, the
\* low-power deadline and the scheduler sleep both use it, no trigger signal
\* is set during the cooldown, the next cycle starts after it, and the time
\* from the end of the join to the next led-set is at least the interval.
C13_Cooldown == []CooldownClock /\ [][CooldownEnds]_vars

C13_Witness ==
    /\ pc["controller"] = "fire1"
    /\ joinAt >= 0
    /\ pause_event["led"].state
    /\ fired = <<"led">>


(***************************************************************************)
(* Outputs at rest                                                         *)
(***************************************************************************)
Rises(e, f) == ~e.state /\ f.state

\* The step that raises a completion signal leaves the output off; for the
\* led the color before it was the held red.
DoneAtRest ==
    /\ Rises(clear_event["led"], clear_event'["led"]) =>
           /\ ledColor = Red
           /\ pc["led"] = "flash"
           /\ ledColor' = Black
    /\ Rises(clear_event["motor"], clear_event'["motor"]) =>
           /\ throttle' = 0
           /\ motorLog' # <<>> /\ motorLog'[Len(motorLog')] = 0

\* A task at the top of its loop has its output off.
OffWhileWaiting ==
    /\ pc["led"] = "wait" => ledColor = Black
    /\ pc["motor"] = "wait" => throttle = 0

\* C14: when LedTask raises its completion signal the last color written is
\* (0, 0, 0), preceded by a held (255, 0, 0); when MotorTask raises its
\* completion signal the last throttle written is 0; a task waiting for its
\* trigger after a completed animation has its output off.
C14_RestOnDone == []OffWhileWaiting /\ [][DoneAtRest]_vars

C14_Witness ==
    /\ clear_event["led"].state /\ clear_event["motor"].state
    /\ pc["led"] = "wait" /\ st["led"] = "waiting"
    /\ pc["motor"] = "wait" /\ st["motor"] = "waiting"
    /\ ledColor = Black /\ throttle = 0
    /\ motorLog # <<>>


(***************************************************************************)
(* Who writes which signal                                                 *)
(***************************************************************************)
Falls(e, f) == e.state /\ ~f.state

\* The steps of Controller.run, its gather included.
ControllerStep ==
    \/ CtrlStart \/ CtrlFireLed \/ CtrlFireSpeaker \/ CtrlFireMotor
    \/ \E n \in Names : JoinWait(n) \/ JoinResume(n)
    \/ CtrlJoinDone

\* The steps of the run() of actuator task n.
ActuatorStep(n) ==
    \/ TaskStart(n)
    \/ n = "led" /\ (LedBegin \/ LedStep \/ LedSegEnd \/ LedNextSeg \/ LedFlash \/ LedOff)
    \/ n = "speaker" /\ SpeakerRun
    \/ n = "motor" /\ (MotorBegin \/ MotorUp \/ MotorHold \/ MotorTurn \/ MotorDown \/ MotorStop)

SignalRoles ==
    \A n \in Names :
        /\ Rises(pause_event[n], pause_event'[n]) => ControllerStep
        /\ Falls(pause_event[n], pause_event'[n]) => ActuatorStep(n)
        /\ Rises(clear_event[n], clear_event'[n]) => ActuatorStep(n)
        /\ Falls(clear_event[n], clear_event'[n]) =>
               /\ CtrlJoinDone
               /\ \A m \in Names : clear_event[m].state
        /\ ActuatorStep(n) =>
               \A m \in Names \ {n} : /\ pause_event'[m] = pause_event[m]
                                      /\ clear_event'[m] = clear_event[m]

\* C15: a trigger signal is set only by the controller and cleared only by
\* the task that owns it; a completion signal is set only by the task that
\* owns it and cleared only by the controller, right after a join in which
\* all three were raised; a step of one actuator task leaves the signals of
\* the other two unchanged.
C15_SignalRoles == [][SignalRoles]_vars

\* A whole cycle has happened: every signal has been set and cleared.
C15_Witness ==
    /\ pc["controller"] = "cooldown"
    /\ joined = Names
    /\ \A n \in Names : /\ runs[n] > 0
                        /\ ~pause_event[n].state
                        /\ ~clear_event[n].state


(***************************************************************************)
(* One colour channel of LedTask.run, for every random target              *)
(***************************************************************************)
MaxChannel == 255

\* The channel of the final target (255, 0, 0) is 255 or 0.
RedTargets == {Red[k] : k \in 1..3}

\* new = randint(0, 255), delta = (new - old) // 20, and the first step.
ChSegment ==
    /\ ch_step \in {0, LedSteps}
    /\ \E new \in randint(0, MaxChannel) :
         /\ ch_new' = new
         /\ ch_delta' = Delta1(new, ch_old)
         /\ ch_old' = ch_old + Delta1(new, ch_old)
    /\ ch_from' = ch_old
    /\ ch_step' = 1
    /\ UNCHANGED <<mainVars, histVars, sigVars, pirVars>>

\* old += delta; self._led.color = old.
ChStep ==
    /\ ch_step \in 1..(LedSteps - 1)
    /\ ch_old' = ch_old + ch_delta
    /\ ch_step' = ch_step + 1
    /\ UNCHANGED <<ch_new, ch_delta, ch_from>>
    /\ UNCHANGED <<mainVars, histVars, sigVars, pirVars>>

\* The next animation, after the segment toward red: old = 0 again.
ChRestart ==
    /\ ch_step = LedSteps
    /\ ch_new \in RedTargets
    /\ ch_old' = 0
    /\ ch_new' = 0
    /\ ch_delta' = 0
    /\ ch_step' = 0
    /\ ch_from' = 0
    /\ UNCHANGED <<mainVars, histVars, sigVars, pirVars>>

InitChannel == InitTasks("off") /\ Registered /\ SigAtRest /\ PirAtRest /\ ChannelAtRest

NextChannel == ChSegment \/ ChStep \/ ChRestart

SpecLedChannel == InitChannel /\ [][NextChannel]_vars

\* In a segment delta is the floor quotient taken at its start and the
\* channel has moved by delta once per step; after the last step the channel
\* is at most 19 below the target and never above it.
Drift ==
    ch_step > 0 =>
        /\ ch_delta = Delta1(ch_new, ch_from)
        /\ ch_delta * LedSteps <= ch_new - ch_from
        /\ ch_new - ch_from < (ch_delta + 1) * LedSteps
        /\ ch_old = ch_from + ch_step * ch_delta
        /\ ch_step = LedSteps => ch_new - (LedSteps - 1) <= ch_old /\ ch_old <= ch_new

\* A segment starts from the value the one before it ended on.
StartsFromDrifted == ch_step' = 1 => ch_from' = ch_old

\* C16: each step of a segment adds delta = floor((target - current) / 20),
\* computed once at the start of the segment; after the 20 steps the channel
\* value v satisfies target - 19 <= v <= target and need not equal the
\* target; v is the starting point of the next segment.
C16_Drift == []Drift /\ [][StartsFromDrifted]_vars

\* A segment that started from a drifted value and ended off its target.
C16_Witness ==
    /\ ch_step = LedSteps
    /\ ch_from # 0
    /\ ch_old # ch_new
    /\ ch_new < ch_from

\* C17: every value LedTask writes to a channel of the light driver, in the
\* random segments and in the segment toward red, is within 0..255.
C17_InRange == 0 <= ch_old /\ ch_old <= MaxChannel

\* The highest value written, on the way to a target of 255.
C17_Witness ==
    /\ ch_step = LedSteps
    /\ ch_new = MaxChannel
    /\ ch_old = 240
    /\ ch_from = 0


(***************************************************************************)
(* No trigger in the middle of an animation                                *)
(***************************************************************************)
\* Task n is suspended at the top of its loop, nothing of it pending.
Idle(n) ==
    /\ pc[n] = "wait"
    /\ st[n] = "waiting"
    /\ ~pause_event[n].state
    /\ ~clear_event[n].state

\* pause_event.set() for task n happens in this step.
Triggered(n) == pending'[n] = pending[n] + 1

NoRetrigger == \A n \in Names : Triggered(n) => Idle(n)

\* C18: the controller never sets an actuator's trigger signal while that
\* actuator is between clearing its trigger signal and raising its
\* completion signal, nor while its completion signal is raised and not yet
\* cleared.
C18_NoRetrigger == [][NoRetrigger]_vars

\* The three triggers of a second cycle have been set.
C18_Witness ==
    /\ joinAt >= 0
    /\ Len(fired) = 3
    /\ pause_event["motor"].state
    /\ pc["led"] = "step"


(***************************************************************************)
(* The cycle boundary                                                      *)
(***************************************************************************)
Quiescent == \A n \in Names : Idle(n)

\* The controller is in the light sleep or the scheduler sleep after it.
InCooldown == pc["controller"] = "cooldown" => Quiescent

\* The step that starts a firing cycle starts from a quiescent state.
CycleStart ==
    pc["controller"] # "fire1" /\ pc'["controller"] = "fire1" => Quiescent

\* C19: when the controller starts a firing cycle, the first one and every
\* later one, and when it enters the low-power sleep of the cooldown, all
\* trigger and completion signals are false and the three actuator tasks
\* are suspended in wait() on their trigger signal, no animation running.
C19_Quiescence == []InCooldown /\ [][CycleStart]_vars

\* The second cycle has started, out of a cooldown.
C19_Witness ==
    /\ pc["controller"] = "fire1"
    /\ joinAt >= 0
    /\ joined = Names
    /\ doneAt = NotYet
    /\ setAt["led"] = 0


(***************************************************************************)
(* Progress under a fair scheduler                                         *)
(***************************************************************************)
\* What the event loop does: it runs a runnable coroutine, or lets time
\* pass up to the next deadline.  The end of a clip is the hardware's.
LoopStep == Tick \/ ControllerStep \/ \E n \in Names : ActuatorStep(n)

SpecLive == Init /\ [][Next]_vars /\ WF_vars(LoopStep)

\* Between a join and the next cycle every task has run one animation, and
\* no task ever runs two for one trigger.
OnePerCycle ==
    /\ \A n \in Names : runs[n] <= 1
    /\ pc["controller"] = "cooldown" =>
           /\ joined = Names
           /\ \A n \in Names : runs[n] = 1 /\ doneAt[n] >= 0

\* C20: with no failing peripheral call and a fair scheduler, every firing
\* cycle completes its join and reaches the cooldown, each actuator task
\* runs exactly one animation per cycle, and the controller starts firing
\* cycles infinitely often.
C20_Progress ==
    /\ []OnePerCycle
    /\ (pc["controller"] = "join") ~> (pc["controller"] = "cooldown")
    /\ []<>(pc["controller"] = "fire1")

\* The join of a second cycle is over.
C20_Witness ==
    /\ pc["controller"] = "cooldown"
    /\ st["controller"] = "sleeping"
    /\ joined = Names
    /\ \A n \in Names : runs[n] = 1 /\ doneAt[n] >= 0
    /\ playing = "none"

====
